---- MODULE Spec2Model ----
(***************************************************************************)
(* Model of the OJT tracker server: the users / entries / supervisors      *)
(* tables of server/storage.ts and the HTTP handlers of server/routes.ts   *)
(* (second registerRoutes, lines 460-878), with the public redemption      *)
(* handler POST /api/verify/:token split at its awaits so that concurrent  *)
(* redemptions interleave at the database.                                 *)
(***************************************************************************)
EXTENDS Integers, Sequences, FiniteSets, TLC

\* ------------------------------------------------------------------ bounds
MaxEntries == 1
MaxSupervisors == 1
MaxRows == 3                      \* entries of the user whose log is rendered
MaxTable == 2                     \* entries of a run about several entries
MaxLinks == 2                     \* magic-link tokens minted in a run

\* ------------------------------------------------------------ input values
Missing == "<undefined>"          \* a field absent from the JSON body
Null == "<null>"                  \* SQL NULL in a text column
NoTime == 0                       \* SQL NULL in a timestamp column
NoToken == "<null-token>"         \* SQL NULL in verification_token
NaNId == -1                       \* parseInt(...) gave NaN

Emails == {"a@x", "b@x"}
Passwords == {"pw", "bad"}
Tokens == {"t1", "t2"}           \* values uuidv4() can return
VerifierNames == {Missing, "", "Ann", "Bob"}
SupEmails == {"s@x"}
Clients == {"c1"}                 \* browser sessions
Procs == {"r1", "r2"}             \* in-flight POST /api/verify/:token requests

\* NDTMethods of the shared schema
NDTMethods == {"ET", "RFT", "MT", "PT", "RT", "UT_THK", "UTSW", "PMI", "LSI"}

\* request bodies of POST /api/entries (single object)
EntryBodies ==
  { [date |-> "d1", location |-> "Site A", method |-> "ET", hours |-> 3],
    [date |-> "d1", location |-> Missing, method |-> "ET", hours |-> 3] }

\* request bodies of POST /api/entries beyond EntryBodies: hours of 0, a method
\* outside NDTMethods, and a body that also carries verification columns
EntryInputs ==
  EntryBodies \cup
  { [date |-> "d1", location |-> "Site A", method |-> "ET", hours |-> 0],
    [date |-> "d1", location |-> "Site A", method |-> "XX", hours |-> 3],
    [date |-> "d1", location |-> "Site A", method |-> "MT", hours |-> 3,
     verified |-> TRUE, verifiedBy |-> "Eve", verifiedAt |-> 9] }

\* array bodies of POST /api/entries
EntryArrays == {<< >>} \cup {<<b>> : b \in EntryInputs}
                 \cup {<<a, b>> : a \in EntryInputs, b \in EntryInputs}

\* request bodies of PATCH /api/user
PatchBodies ==
  { [name |-> Missing, employeeNumber |-> Missing],
    [name |-> "N", employeeNumber |-> "7"],
    [name |-> Null, employeeNumber |-> Missing] }

\* new-supervisor fields of a request body
SupervisorFields ==
  { [userId |-> 0, name |-> "J", email |-> e, phone |-> "555",
     certificationLevel |-> "Level II", company |-> "Acme"] : e \in SupEmails }
  \cup
  { [userId |-> 0, name |-> Missing, email |-> "s@x", phone |-> "555",
     certificationLevel |-> "Level II", company |-> "Acme"] }

\* request bodies of POST /api/verify-request/:entryId: a supervisorId, or the
\* fields of a new supervisor (supervisorId 0: absent)
VerifyRequestBodies ==
  { [supervisorId |-> k, fields |-> f] :
      k \in 1..MaxSupervisors + 1, f \in {CHOOSE g \in SupervisorFields : g.name = Missing} }
  \cup { [supervisorId |-> 0, fields |-> f] : f \in SupervisorFields }

\* the certification levels the supervisor form offers
CertificationLevels == {"Level I", "Level II", "Level III"}

\* new-supervisor fields as any client may post them: complete ones with no
\* userId (0) or with a user's id, and ones with an empty, null or missing column or
\* a certification level that does not exist
SupervisorInputs ==
  { [userId |-> u, name |-> "J", email |-> "s@x", phone |-> "555",
     certificationLevel |-> "Level II", company |-> "Acme"] : u \in {0, 1, 2} }
  \cup
  { [userId |-> 0, name |-> "", email |-> "s@x", phone |-> "555",
     certificationLevel |-> "Level II", company |-> "Acme"],
    [userId |-> 0, name |-> "J", email |-> Missing, phone |-> "555",
     certificationLevel |-> "Level II", company |-> "Acme"],
    [userId |-> 0, name |-> "J", email |-> "s@x", phone |-> Null,
     certificationLevel |-> "Level II", company |-> "Acme"],
    [userId |-> 0, name |-> "J", email |-> "s@x", phone |-> "555",
     certificationLevel |-> "Level IX", company |-> "Acme"] }

\* request bodies of POST /api/verify-request/:entryId over those fields
BankBodies ==
  { [supervisorId |-> k, fields |-> f] :
      k \in 1..MaxSupervisors + 1,
      f \in {CHOOSE g \in SupervisorInputs : g.email = Missing} }
  \cup { [supervisorId |-> 0, fields |-> f] : f \in SupervisorInputs }

\* a check for undefined only, where the code tests truthiness
Truthy_OnlyUndefined(v) == v # Missing

\* a check for null or undefined only, where the code tests truthiness
Truthy_NullCheck(v) == v \notin {Missing, Null}

\* JavaScript truthiness of a value taken from a JSON body (!v is its negation)
Truthy(v) == v \notin {Missing, Null, ""}

\* users, entries, supervisors: the tables; session: the userId of each client's
\* session (0: none); req: the redemption requests in flight; now: the clock;
\* resp: the last response sent; sent: the notification attempts made for it;
\* issued: whether a verification request succeeded for each entry id never,
\* once, or again after that (its length is the number of entries a run may hold);
\* magic: the magicLinkToken and magicLinkEmail of each client's session;
\* flight: the sign-up and magic-link requests that are between two awaits;
\* minted: how many tokens randomBytes has returned
VARIABLES users, entries, supervisors, session, req, now, resp, sent, issued,
          magic, flight, minted

vars == <<users, entries, supervisors, session, req, now, resp, sent, issued,
          magic, flight, minted>>

\* ------------------------------------------------------------- storage.ts
\* destructuring const [row] = rows: the first row, 0 for undefined
First(S) == IF S = {} THEN 0 ELSE CHOOSE i \in S : \A j \in S : i <= j

\* const [user] = select from users where email = ?   (0: undefined)
GetUserByEmail(us, email) == First({i \in 1..Len(us) : us[i].email = email})

\* const [user] = select from users where id = ?
GetUser(us, id) == First({i \in 1..Len(us) : i = id})

\* const [entry] = select from entries where id = ?
GetEntry(es, id) == First({i \in 1..Len(es) : i = id})

\* a table without an index on verification_token: no row is found by it
GetEntryByVerificationToken_NoIndex(es, token) == 0

\* the lookup compares the wrong column and matches no row
GetEntryByVerificationToken_WrongColumn(es, token) ==
  First({i \in 1..Len(es) : es[i].verifiedBy = token})

\* const [entry] = select from entries where verification_token = ?
GetEntryByVerificationToken(es, token) ==
  First({i \in 1..Len(es) : es[i].verificationToken = token})

\* const [supervisor] = select from supervisors where id = ?
GetSupervisor(sups, id) == First({i \in 1..Len(sups) : i = id})

\* select from supervisors where user_id = ?
GetSupervisors(sups, userId) == {i \in 1..Len(sups) : sups[i].userId = userId}

\* the select without its where clause
GetEntries_All(es, userId) == {i \in 1..Len(es) : TRUE}

\* select from entries where user_id = ?
GetEntries(es, userId) == {i \in 1..Len(es) : es[i].userId = userId}

\* createEntry without the uuid: the token column stays NULL
CreateEntryRow_NoToken(parsed, verificationToken) ==
  [userId |-> parsed.userId, date |-> parsed.date, location |-> parsed.location,
   method |-> parsed.method, hours |-> parsed.hours,
   verified |-> FALSE, verifiedBy |-> Null,
   verificationToken |-> NoToken, verifiedAt |-> NoTime]

\* the columns of the entries table and the value of a column the insert omits
EntryColumns ==
  {"userId", "date", "location", "method", "hours", "verified", "verifiedBy",
   "verificationToken", "verifiedAt"}

ColumnDefault(col) ==
  CASE col = "verified" -> FALSE
    [] col = "verifiedAt" -> NoTime
    [] OTHER -> Null

\* the row createEntry inserts for values({ ...entry, verificationToken }): the
\* keys of entry, a fresh uuid, and the column defaults for the rest
CreateEntryRow(parsed, verificationToken) ==
  [col \in EntryColumns |->
     IF col = "verificationToken" THEN verificationToken
     ELSE IF col \in DOMAIN parsed THEN parsed[col]
     ELSE ColumnDefault(col)]

\* the update flips the flag instead of setting it
VerifyEntry_Toggle(es, id, verifiedBy, at) ==
  [i \in 1..Len(es) |->
     IF i = id
     THEN [es[i] EXCEPT !.verified = ~es[i].verified, !.verifiedBy = verifiedBy,
                        !.verifiedAt = at]
     ELSE es[i]]

\* the update without its where clause
VerifyEntry_AllRows(es, id, verifiedBy, at) ==
  [i \in 1..Len(es) |->
     [es[i] EXCEPT !.verified = TRUE, !.verifiedBy = verifiedBy, !.verifiedAt = at]]

\* the update without its verified_at column
VerifyEntry_NoTimestamp(es, id, verifiedBy, at) ==
  [i \in 1..Len(es) |->
     IF i = id
     THEN [es[i] EXCEPT !.verified = TRUE, !.verifiedBy = verifiedBy]
     ELSE es[i]]

\* update entries set verified = true, verified_by = ?, verified_at = now where id = ?
VerifyEntry(es, id, verifiedBy, at) ==
  [i \in 1..Len(es) |->
     IF i = id
     THEN [es[i] EXCEPT !.verified = TRUE, !.verifiedBy = verifiedBy, !.verifiedAt = at]
     ELSE es[i]]

\* the row createSupervisor inserts
CreateSupervisorRow(parsed) ==
  [userId |-> parsed.userId, name |-> parsed.name, email |-> parsed.email,
   phone |-> parsed.phone, certificationLevel |-> parsed.certificationLevel,
   company |-> parsed.company]

\* --------------------------------------------------------------- schema
\* insertEntrySchema.parse succeeds: every picked column is notNull
ValidEntry(data) ==
  /\ data.date # Missing
  /\ data.location # Missing
  /\ data.method # Missing
  /\ data.hours \in Int

\* a parse that returns its input with every key it came with
InsertEntryParse_Passthrough(data) == data

\* what insertEntrySchema.parse returns: the picked keys, any other key stripped
InsertEntryParse(data) ==
  [f \in {"userId", "date", "location", "method", "hours"} |-> data[f]]

\* { ...body, userId }
WithUserId(body, userId) ==
  [f \in DOMAIN body \cup {"userId"} |-> IF f = "userId" THEN userId ELSE body[f]]

\* insertSupervisorSchema.parse succeeds: every picked column is notNull text,
\* a string of any length and content
ValidSupervisor(data) ==
  /\ data.name \notin {Missing, Null}
  /\ data.email \notin {Missing, Null}
  /\ data.phone \notin {Missing, Null}
  /\ data.certificationLevel \notin {Missing, Null}
  /\ data.company \notin {Missing, Null}

\* the spread with the body's own userId left in place
SupervisorData_BodyWins(body, userId) == body

\* { ...req.body, userId: req.session.userId }
SupervisorData(body, userId) == [body EXCEPT !.userId = userId]

\* bcrypt hash and compare; NoPassword is a NULL password column
NoPassword == [alg |-> "null", of |-> ""]

Hash(password) == [alg |-> "bcrypt", of |-> password]

Compare(password, hashed) == hashed = Hash(password)

\* --------------------------------------------------------------- responses
\* a response: status, message, and the ids of the entry and supervisor rows in
\* its body (rows: the ids of a list body; totals: the totals row of a rendered
\* document); with it the request it answers: route, client and :entryId
Response(op, status, message, entry, supervisor) ==
  [op |-> op, client |-> "public", entryId |-> 0, status |-> status,
   message |-> message, entry |-> entry, supervisor |-> supervisor,
   rows |-> {}, totals |-> << >>]

\* a response whose body is a list of rows (their ids)
WithRows(response, rows) == [response EXCEPT !.rows = rows]

To(c, entryId, response) == [response EXCEPT !.client = c, !.entryId = entryId]

NoResponse == Response("none", 0, "", 0, 0)

\* a session without magicLinkToken and magicLinkEmail (token 0: undefined)
NoLink == [token |-> 0, email |-> Missing]

\* no sign-up or magic-link request between two awaits
IdleFlight ==
  [pc |-> "idle", op |-> "none", client |-> "none", email |-> Missing,
   password |-> Missing, token |-> 0, found |-> 0]

IdleReq ==
  [pc |-> "idle", token |-> NoToken, verifierName |-> Missing, entryId |-> 0,
   status |-> 0, message |-> ""]

Init ==
  /\ users = << >>
  /\ entries = << >>
  /\ supervisors = << >>
  /\ session = [c \in Clients |-> 0]
  /\ req = [p \in Procs |-> IdleReq]
  /\ now = 1
  /\ resp = NoResponse
  /\ sent = << >>
  /\ issued = [e \in 1..MaxEntries |-> "never"]
  /\ magic = [c \in Clients |-> NoLink]
  /\ flight = [p \in Procs |-> IdleFlight]
  /\ minted = 0

\* ------------------------------------------------------------ auth routes
\* a middleware that lets every request through
Authed_Always(c) == TRUE

\* requireAuth: the session carries a userId
Authed(c) == session[c] # 0

Unauthorized(c, op) ==
  /\ ~Authed(c)
  /\ resp' = To(c, 0, Response(op, 401, "Unauthorized", 0, 0))
  /\ sent' = << >>
  /\ UNCHANGED <<users, entries, supervisors, session, req, now, issued, magic, flight, minted>>

\* POST /api/auth/register
Register(c, email, password) ==
  /\ IF ~Truthy(email) \/ ~Truthy(password)
     THEN /\ resp' = To(c, 0, Response("register", 400, "Email and password are required", 0, 0))
          /\ UNCHANGED <<users, session>>
     ELSE IF GetUserByEmail(users, email) # 0
     THEN /\ resp' = To(c, 0, Response("register", 400, "Email already registered", 0, 0))
          /\ UNCHANGED <<users, session>>
     ELSE /\ users' = Append(users, [email |-> email, password |-> Hash(password),
                                     name |-> Null, employeeNumber |-> Null])
          /\ session' = [session EXCEPT ![c] = Len(users) + 1]
          /\ resp' = To(c, 0, Response("register", 201, "", 0, 0))
  /\ sent' = << >>
  /\ UNCHANGED <<entries, supervisors, req, now, issued, magic, flight, minted>>

\* a login that answers a missing user apart from a wrong password
LoginFailure_Telling(reason) ==
  IF reason = "no-user" THEN Response("login", 404, "User not found", 0, 0)
  ELSE Response("login", 401, "Invalid email or password", 0, 0)

\* the two 401 answers of the login handler: after the user lookup
\* ("no-user": no row, or a row without password) and after compare
LoginFailure(reason) == Response("login", 401, "Invalid email or password", 0, 0)

\* POST /api/auth/login
Login(c, email, password) ==
  /\ LET u == GetUserByEmail(users, email) IN
     IF ~Truthy(email) \/ ~Truthy(password)
     THEN /\ resp' = To(c, 0, Response("login", 400, "Email and password are required", 0, 0))
          /\ UNCHANGED session
     ELSE IF u = 0 \/ users[u].password = NoPassword
     THEN /\ resp' = To(c, 0, LoginFailure("no-user"))
          /\ UNCHANGED session
     ELSE IF ~Compare(password, users[u].password)
     THEN /\ resp' = To(c, 0, LoginFailure("bad-password"))
          /\ UNCHANGED session
     ELSE /\ session' = [session EXCEPT ![c] = u]
          /\ resp' = To(c, 0, Response("login", 200, "", 0, 0))
  /\ sent' = << >>
  /\ UNCHANGED <<users, entries, supervisors, req, now, issued, magic, flight, minted>>

\* POST /api/auth/logout: session.destroy drops everything the session holds
Logout(c) ==
  /\ session' = [session EXCEPT ![c] = 0]
  /\ magic' = [magic EXCEPT ![c] = NoLink]
  /\ resp' = To(c, 0, Response("logout", 200, "Logged out successfully", 0, 0))
  /\ sent' = << >>
  /\ UNCHANGED <<users, entries, supervisors, req, now, issued, flight, minted>>

\* ----------------------------------------------------------- entry routes
\* POST /api/entries with a single object; token is what uuidv4() returns.  The
\* insert fails on the unique index of verification_token when the value is taken.
CreateEntry(c, body, token) ==
  \/ Unauthorized(c, "create-entry")
  \/ /\ Authed(c)
     /\ Len(entries) < Len(issued)
     /\ LET entryData == WithUserId(body, session[c]) IN
        IF ~ValidEntry(entryData)
        THEN /\ resp' = To(c, 0, Response("create-entry", 400, "Invalid entry data", 0, 0))
             /\ UNCHANGED entries
        ELSE IF GetEntryByVerificationToken(entries, token) # 0
        THEN /\ resp' = To(c, 0, Response("create-entry", 500, "Error creating entry", 0, 0))
             /\ UNCHANGED entries
        ELSE /\ entries' = Append(entries, CreateEntryRow(InsertEntryParse(entryData), token))
             /\ resp' = To(c, 0, Response("create-entry", 201, "", Len(entries) + 1, 0))
     /\ sent' = << >>
     /\ UNCHANGED <<users, supervisors, session, req, now, issued, magic, flight, minted>>

\* POST /api/supervisors
CreateSupervisor(c, fields) ==
  \/ Unauthorized(c, "create-supervisor")
  \/ /\ Authed(c)
     /\ Len(supervisors) < MaxSupervisors
     /\ LET supervisorData == SupervisorData(fields, session[c]) IN
        IF ~ValidSupervisor(supervisorData)
        THEN /\ resp' = To(c, 0, Response("create-supervisor", 400, "Invalid supervisor data", 0, 0))
             /\ UNCHANGED supervisors
        ELSE /\ supervisors' = Append(supervisors, CreateSupervisorRow(supervisorData))
             /\ resp' = To(c, 0, Response("create-supervisor", 201, "", 0, Len(supervisors) + 1))
     /\ sent' = << >>
     /\ UNCHANGED <<users, entries, session, req, now, issued, magic, flight, minted>>

\* ---------------------------------------------------- verification request
\* the handler without its entry.verified check
VerifyRequestOutcome_NoVerifiedCheck(uid, entryId, supervisorId, fields, es, sups) ==
  IF entryId = NaNId THEN "invalid-id"
  ELSE IF GetEntry(es, entryId) = 0 THEN "entry-not-found"
  ELSE IF es[entryId].userId # uid THEN "forbidden"
  ELSE IF supervisorId # 0
       THEN IF GetSupervisor(sups, supervisorId) = 0 THEN "supervisor-not-found"
            ELSE "existing-supervisor"
  ELSE IF ~ValidSupervisor(SupervisorData(fields, uid)) THEN "parse-error"
  ELSE "new-supervisor"

\* The checks of POST /api/verify-request/:entryId in the order of the code, up
\* to the supervisor lookup or parse; uid is the session's userId.
VerifyRequestOutcome(uid, entryId, supervisorId, fields, es, sups) ==
  IF entryId = NaNId THEN "invalid-id"
  ELSE IF GetEntry(es, entryId) = 0 THEN "entry-not-found"
  ELSE IF es[entryId].userId # uid THEN "forbidden"
  ELSE IF es[entryId].verified THEN "already-verified"
  ELSE IF supervisorId # 0
       THEN IF GetSupervisor(sups, supervisorId) = 0 THEN "supervisor-not-found"
            ELSE "existing-supervisor"
  ELSE IF ~ValidSupervisor(SupervisorData(fields, uid)) THEN "parse-error"
  ELSE "new-supervisor"

\* the response the handler sends for an outcome that ends the request early
VerifyRequestRejection(outcome) ==
  CASE outcome = "invalid-id" -> Response("verify-request", 400, "Invalid entry ID", 0, 0)
    [] outcome = "entry-not-found" -> Response("verify-request", 404, "Entry not found", 0, 0)
    [] outcome = "forbidden" -> Response("verify-request", 403, "Unauthorized", 0, 0)
    [] outcome = "already-verified" ->
         Response("verify-request", 400, "Entry already verified", 0, 0)
    [] outcome = "supervisor-not-found" ->
         Response("verify-request", 404, "Supervisor not found", 0, 0)
    [] outcome = "parse-error" ->
         Response("verify-request", 500, "Error sending verification request", 0, 0)

\* a mailer that sends once more after a failed attempt
SendVerificationEmail_Retry(to, delivered) ==
  IF delivered THEN <<[to |-> to, delivered |-> TRUE]>>
  ELSE <<[to |-> to, delivered |-> FALSE], [to |-> to, delivered |-> FALSE]>>

\* the attempts of one sendVerificationEmail call: sendEmail posts the message
\* once and returns whether that post succeeded
SendVerificationEmail(to, delivered) == <<[to |-> to, delivered |-> delivered]>>

\* the answer after sendVerificationEmail returned emailSent, were a failed
\* dispatch to end the request
VerifyRequestSent_FatalDelivery(entryId, sup, emailSent) ==
  IF emailSent
  THEN Response("verify-request", 200, "Verification request sent", entryId, sup)
  ELSE Response("verify-request", 500, "Error sending verification request", 0, 0)

\* the answer after sendVerificationEmail returned emailSent: a failed dispatch
\* is logged only, and the body carries the supervisor and the entry with its token
VerifyRequestSent(entryId, sup, emailSent) ==
  Response("verify-request", 200, "Verification request sent", entryId, sup)

\* POST /api/verify-request/:entryId; body carries supervisorId (0: absent) or
\* new-supervisor fields; delivered is what sendVerificationEmail returns.
VerifyRequest(c, entryId, body) ==
  \/ Unauthorized(c, "verify-request")
  \/ /\ Authed(c)
     /\ LET fields == body.fields
            outcome == VerifyRequestOutcome(session[c], entryId, body.supervisorId, fields,
                                            entries, supervisors)
            sup == IF outcome = "existing-supervisor" THEN body.supervisorId
                   ELSE Len(supervisors) + 1 IN
        IF outcome \notin {"existing-supervisor", "new-supervisor"}
        THEN /\ resp' = To(c, entryId, VerifyRequestRejection(outcome))
             /\ sent' = << >>
             /\ UNCHANGED <<supervisors, issued>>
        ELSE /\ outcome = "new-supervisor" => Len(supervisors) < MaxSupervisors
             /\ supervisors' =
                  IF outcome = "new-supervisor"
                  THEN Append(supervisors,
                              CreateSupervisorRow(SupervisorData(fields, session[c])))
                  ELSE supervisors
             /\ \E delivered \in BOOLEAN :
                  /\ sent' = SendVerificationEmail(supervisors'[sup].email, delivered)
                  /\ resp' = To(c, entryId, VerifyRequestSent(entryId, sup, delivered))
             /\ issued' = [issued EXCEPT ![entryId] = IF @ = "never" THEN "once" ELSE "again"]
     /\ UNCHANGED <<users, entries, session, req, now, magic, flight, minted>>

\* ------------------------------------------------------- public token routes
\* GET /api/verify/:token
VerifyGetResponse(es, token) ==
  LET entry == GetEntryByVerificationToken(es, token) IN
  IF entry = 0
  THEN Response("verify-get", 404, "Entry not found or already verified", 0, 0)
  ELSE IF es[entry].verified
  THEN Response("verify-get", 400, "Entry already verified", 0, 0)
  ELSE Response("verify-get", 200, "", entry, 0)

VerifyGet(token) ==
  /\ resp' = VerifyGetResponse(entries, token)
  /\ sent' = << >>
  /\ UNCHANGED <<users, entries, supervisors, session, req, now, issued, magic, flight, minted>>

\* POST /api/verify/:token, in the steps between its awaits.  A request that
\* has answered may be followed by a new request of the same client.
Finish(r, status, message) ==
  [r EXCEPT !.pc = "done", !.verifierName = Missing, !.status = status,
            !.message = message]

\* the request arrives; the verifierName check is made before any lookup
RedeemStart(p, token, verifierName) ==
  /\ req[p].pc \in {"idle", "done"}
  /\ req' = [req EXCEPT ![p] =
       IF ~Truthy(verifierName)
       THEN Finish([IdleReq EXCEPT !.token = token, !.verifierName = verifierName],
                   400, "Verifier name is required")
       ELSE [IdleReq EXCEPT !.pc = "lookup", !.token = token,
                            !.verifierName = verifierName]]
  /\ UNCHANGED <<users, entries, supervisors, session, now, resp, sent, issued, magic, flight, minted>>

\* what the handler does with the row getEntryByVerificationToken returned
RedeemCheck(r, es) ==
  LET entry == GetEntryByVerificationToken(es, r.token) IN
  IF entry = 0 THEN Finish(r, 404, "Entry not found or already verified")
  ELSE IF es[entry].verified THEN Finish(r, 400, "Entry already verified")
  ELSE [r EXCEPT !.pc = "write", !.entryId = entry]

\* await storage.getEntryByVerificationToken(token) and the two checks on it
RedeemLookup(p) ==
  /\ req[p].pc = "lookup"
  /\ req' = [req EXCEPT ![p] = RedeemCheck(req[p], entries)]
  /\ UNCHANGED <<users, entries, supervisors, session, now, resp, sent, issued, magic, flight, minted>>

\* await storage.verifyEntry(entry.id, verifierName)
RedeemWrite(p) ==
  /\ req[p].pc = "write"
  /\ entries' = VerifyEntry(entries, req[p].entryId, req[p].verifierName, now)
  /\ now' = now + 1
  /\ req' = [req EXCEPT ![p].pc = "notify"]
  /\ UNCHANGED <<users, supervisors, session, resp, sent, issued, magic, flight, minted>>

\* getUser, sendVerificationConfirmation (which swallows its errors), res.json
RedeemNotify(p) ==
  /\ req[p].pc = "notify"
  /\ req' = [req EXCEPT ![p] = Finish(req[p], 200, "Entry verified successfully")]
  /\ UNCHANGED <<users, entries, supervisors, session, now, resp, sent, issued, magic, flight, minted>>

\* the confirmation attempts after verifyEntry: none when getUser finds no owner,
\* else one sendVerificationConfirmation, which logs a failure and returns
Confirmations(us, userId) ==
  IF GetUser(us, userId) = 0 THEN {<< >>}
  ELSE {<<[to |-> us[userId].email, delivered |-> delivered]>> : delivered \in BOOLEAN}

\* POST /api/verify/:token handled without another request in between: the
\* steps above in sequence, answered in resp; sent holds the confirmation attempt
Redeem(token, verifierName) ==
  /\ \A p \in Procs : req[p].pc \in {"idle", "done"}
  /\ LET r == RedeemCheck([IdleReq EXCEPT !.token = token,
                                          !.verifierName = verifierName], entries) IN
     IF ~Truthy(verifierName)
     THEN /\ resp' = Response("verify-post", 400, "Verifier name is required", 0, 0)
          /\ sent' = << >>
          /\ UNCHANGED <<entries, now>>
     ELSE IF r.pc = "done"
     THEN /\ resp' = Response("verify-post", r.status, r.message, 0, 0)
          /\ sent' = << >>
          /\ UNCHANGED <<entries, now>>
     ELSE /\ entries' = VerifyEntry(entries, r.entryId, verifierName, now)
          /\ now' = now + 1
          /\ sent' \in Confirmations(users, entries[r.entryId].userId)
          /\ resp' = Response("verify-post", 200, "Entry verified successfully",
                              r.entryId, 0)
  /\ UNCHANGED <<users, supervisors, session, req, issued, magic, flight, minted>>

\* every handler, each request handled to its end before the next arrives
Next ==
  \/ \E c \in Clients, email \in Emails \cup {Missing} : Register(c, email, "pw")
  \/ \E c \in Clients, email \in Emails, password \in Passwords : Login(c, email, password)
  \/ \E c \in Clients : Logout(c)
  \/ \E c \in Clients, body \in EntryBodies, token \in Tokens : CreateEntry(c, body, token)
  \/ \E c \in Clients, fields \in SupervisorFields : CreateSupervisor(c, fields)
  \/ \E c \in Clients, entryId \in {NaNId} \cup (1..MaxEntries + 1),
        body \in VerifyRequestBodies :
       VerifyRequest(c, entryId, body)
  \/ \E token \in Tokens : VerifyGet(token)
  \/ \E token \in Tokens, verifierName \in {Missing, "", "Ann"} :
       Redeem(token, verifierName)

Spec == Init /\ [][Next]_vars

\* redemption requests in flight together, on entries created by registered users
RaceNext ==
  \/ \E c \in Clients, email \in Emails : Register(c, email, "pw")
  \/ \E c \in Clients, body \in EntryBodies, token \in Tokens : CreateEntry(c, body, token)
  \/ \E p \in Procs, token \in Tokens, verifierName \in VerifierNames :
       RedeemStart(p, token, verifierName)
  \/ \E p \in Procs : RedeemLookup(p)
  \/ \E p \in Procs : RedeemWrite(p)
  \/ \E p \in Procs : RedeemNotify(p)

RaceSpec == Init /\ [][RaceNext]_vars

\* ------------------------------------------------ POST /api/entries, arrays
\* what uuidv4() returns for each element of an array body of length n
TokenSeqs(n) == [1..n -> Tokens]

\* the for loop of the array branch: each element is parsed and then inserted
\* before the next one is parsed; a ZodError or a failed insert ends the loop
RECURSIVE CreateEntriesLoop(_, _, _, _)
CreateEntriesLoop(es, userId, bodies, tokens) ==
  IF bodies = << >> THEN [entries |-> es, status |-> 201]
  ELSE LET entryData == WithUserId(Head(bodies), userId) IN
       IF ~ValidEntry(entryData) THEN [entries |-> es, status |-> 400]
       ELSE IF GetEntryByVerificationToken(es, Head(tokens)) # 0
       THEN [entries |-> es, status |-> 500]
       ELSE CreateEntriesLoop(
              Append(es, CreateEntryRow(InsertEntryParse(entryData), Head(tokens))),
              userId, Tail(bodies), Tail(tokens))

\* POST /api/entries with an array body
CreateEntryBatch(c, bodies, tokens) ==
  \/ Unauthorized(c, "create-entries")
  \/ /\ Authed(c)
     /\ LET out == CreateEntriesLoop(entries, session[c], bodies, tokens) IN
        /\ Len(out.entries) <= Len(issued)
        /\ entries' = out.entries
        /\ resp' = To(c, 0,
             CASE out.status = 201 ->
                    WithRows(Response("create-entries", 201, "", 0, 0),
                             Len(entries) + 1 .. Len(out.entries))
               [] out.status = 400 ->
                    Response("create-entries", 400, "Invalid entry data", 0, 0)
               [] out.status = 500 ->
                    Response("create-entries", 500, "Error creating entry", 0, 0))
     /\ sent' = << >>
     /\ UNCHANGED <<users, supervisors, session, req, now, issued, magic, flight, minted>>

\* entry creation by registered users, with single and array bodies
EntryNext ==
  \/ \E c \in Clients, email \in Emails : Register(c, email, "pw")
  \/ \E c \in Clients : Logout(c)
  \/ \E c \in Clients, body \in EntryInputs, token \in Tokens : CreateEntry(c, body, token)
  \/ \E c \in Clients, bodies \in EntryArrays :
       \E tokens \in TokenSeqs(Len(bodies)) : CreateEntryBatch(c, bodies, tokens)

EntrySpec == Init /\ [][EntryNext]_vars

\* ------------------------------------------------- listings and user routes
\* GET /api/entries
ListEntries(c) ==
  \/ Unauthorized(c, "list-entries")
  \/ /\ Authed(c)
     /\ resp' = To(c, 0, WithRows(Response("list-entries", 200, "", 0, 0),
                                  GetEntries(entries, session[c])))
     /\ sent' = << >>
     /\ UNCHANGED <<users, entries, supervisors, session, req, now, issued, magic, flight, minted>>

\* GET /api/supervisors
ListSupervisors(c) ==
  \/ Unauthorized(c, "list-supervisors")
  \/ /\ Authed(c)
     /\ resp' = To(c, 0, WithRows(Response("list-supervisors", 200, "", 0, 0),
                                  GetSupervisors(supervisors, session[c])))
     /\ sent' = << >>
     /\ UNCHANGED <<users, entries, supervisors, session, req, now, issued, magic, flight, minted>>

\* GET /api/user: the user row without its password (rows: its id)
GetUserRoute(c) ==
  \/ Unauthorized(c, "get-user")
  \/ /\ Authed(c)
     /\ LET user == GetUser(users, session[c]) IN
        resp' = To(c, 0, IF user = 0
                         THEN Response("get-user", 404, "User not found", 0, 0)
                         ELSE WithRows(Response("get-user", 200, "", 0, 0), {user}))
     /\ sent' = << >>
     /\ UNCHANGED <<users, entries, supervisors, session, req, now, issued, magic, flight, minted>>

\* z.object({ name: z.string().optional(), employeeNumber: z.string().optional() })
ValidPatch(body) == body.name # Null /\ body.employeeNumber # Null

\* PATCH /api/user: name || user.name, employeeNumber || user.employeeNumber
PatchUser(c, body) ==
  \/ Unauthorized(c, "patch-user")
  \/ /\ Authed(c)
     /\ LET user == GetUser(users, session[c]) IN
        IF user = 0
        THEN /\ resp' = To(c, 0, Response("patch-user", 404, "User not found", 0, 0))
             /\ UNCHANGED users
        ELSE IF ~ValidPatch(body)
        THEN /\ resp' = To(c, 0, Response("patch-user", 500, "Error updating user", 0, 0))
             /\ UNCHANGED users
        ELSE /\ users' = [users EXCEPT
                            ![user].name = IF Truthy(body.name) THEN body.name ELSE @,
                            ![user].employeeNumber =
                              IF Truthy(body.employeeNumber) THEN body.employeeNumber ELSE @]
             /\ resp' = To(c, 0, WithRows(Response("patch-user", 200, "", 0, 0), {user}))
     /\ sent' = << >>
     /\ UNCHANGED <<entries, supervisors, session, req, now, issued, magic, flight, minted>>

\* two users creating and listing entries and supervisors, each request
\* handled to its end before the next
ListNext ==
  \/ \E c \in Clients, email \in Emails : Register(c, email, "pw")
  \/ \E c \in Clients, email \in Emails : Login(c, email, "pw")
  \/ \E c \in Clients : Logout(c)
  \/ \E c \in Clients : ListEntries(c)
  \/ \E c \in Clients, body \in EntryBodies, token \in Tokens : CreateEntry(c, body, token)
  \/ \E c \in Clients : ListSupervisors(c)
  \/ \E c \in Clients, fields \in SupervisorFields : CreateSupervisor(c, fields)
  \/ \E c \in Clients, entryId \in 1..MaxEntries, body \in VerifyRequestBodies :
       VerifyRequest(c, entryId, body)
  \/ \E token \in Tokens : Redeem(token, "Ann")

ListSpec == Init /\ [][ListNext]_vars

\* every owner-scoped route and the two token routes, for one user who is logged
\* in at some times and not at others
ApiNext ==
  \/ \E c \in Clients : Register(c, "a@x", "pw")
  \/ \E c \in Clients, password \in Passwords : Login(c, "a@x", password)
  \/ \E c \in Clients : Logout(c)
  \/ \E c \in Clients : GetUserRoute(c)
  \/ \E c \in Clients, body \in PatchBodies : PatchUser(c, body)
  \/ \E c \in Clients : ListEntries(c)
  \/ \E c \in Clients, body \in EntryBodies, token \in Tokens : CreateEntry(c, body, token)
  \/ \E c \in Clients : ListSupervisors(c)
  \/ \E c \in Clients, fields \in SupervisorFields : CreateSupervisor(c, fields)
  \/ \E c \in Clients, entryId \in 1..MaxEntries, body \in VerifyRequestBodies :
       VerifyRequest(c, entryId, body)
  \/ \E token \in Tokens : VerifyGet(token)
  \/ \E token \in Tokens : Redeem(token, "Ann")

ApiSpec == Init /\ [][ApiNext]_vars

\* --------------------------------------------------- client: totals, export
\* what the user whose log is rendered has logged: a method and hours in tenths
LoggedWork ==
  { [method |-> "ET", hours |-> 25], [method |-> "ET", hours |-> 10],
    [method |-> "MT", hours |-> 40], [method |-> "MT", hours |-> 25] }

\* the uuids createEntry minted for that user's entries, by entry id
Uuids == <<"u1", "u2", "u3", "u4", "u5", "u6">>

\* the ids of a list body in the order of the list
RECURSIVE ListOf(_)
ListOf(S) ==
  IF S = {} THEN << >>
  ELSE LET i == CHOOSE k \in S : \A j \in S : k <= j IN <<i>> \o ListOf(S \ {i})

\* const totals = { ET: 0, RFT: 0, MT: 0, PT: 0, RT: 0, UT_THK: 0, UTSW: 0, PMI: 0, LSI: 0 }
InitialTotals == [m \in NDTMethods |-> 0]

\* the step replaces the total by the entry's hours
AddHours_Overwrite(acc, entry) ==
  [m \in DOMAIN acc \cup {entry.method} |->
     IF m # entry.method THEN acc[m] ELSE entry.hours]

\* acc[entry.method] += entry.hours; for a key that acc has not, undefined + hours
\* is NaN, and NaN stays NaN
AddHours(acc, entry) ==
  [m \in DOMAIN acc \cup {entry.method} |->
     IF m # entry.method THEN acc[m]
     ELSE IF m \in DOMAIN acc /\ acc[m] # NaNId THEN acc[m] + entry.hours
     ELSE NaNId]

\* OJTTable: entries.reduce(..., initialTotals), ids being the list of entry ids
RECURSIVE TableTotals(_, _, _)
TableTotals(acc, es, ids) ==
  IF ids = << >> THEN acc
  ELSE TableTotals(AddHours(acc, es[Head(ids)]), es, Tail(ids))

\* generatePdf: verifiedEntries.forEach, adding only under a key of totals
RECURSIVE PdfTotals(_, _, _)
PdfTotals(acc, es, ids) ==
  IF ids = << >> THEN acc
  ELSE PdfTotals(IF es[Head(ids)].method \in DOMAIN acc
                 THEN AddHours(acc, es[Head(ids)]) ELSE acc,
                 es, Tail(ids))

\* a filter that keeps every entry
VerifiedEntries_All(es, ids) == ids

\* entries.filter(entry => entry.verified)
VerifiedEntries(es, ids) == SelectSeq(ids, LAMBDA i : es[i].verified = TRUE)

\* the set of the elements of a list
Range(f) == {f[i] : i \in DOMAIN f}

\* generatePdf(entries, user): one row per verified entry and the totals row
GeneratePdf(es, ids) ==
  LET verifiedEntries == VerifiedEntries(es, ids) IN
  [Response("export-pdf", 200, "PDF exported", 0, 0) EXCEPT
     !.rows = Range(verifiedEntries),
     !.totals = PdfTotals(InitialTotals, es, verifiedEntries)]

\* the profile page shows OJTTable for the entries GET /api/entries returned
RenderTable(c) ==
  /\ Authed(c)
  /\ LET ids == ListOf(GetEntries(entries, session[c])) IN
     resp' = To(c, 0, [Response("ojt-table", 200, "", 0, 0) EXCEPT
                         !.rows = Range(ids),
                         !.totals = TableTotals(InitialTotals, entries, ids)])
  /\ sent' = << >>
  /\ UNCHANGED <<users, entries, supervisors, session, req, now, issued, magic, flight, minted>>

\* the export button: the page filters the verified entries of the list, the
\* header refuses an empty list and else calls generatePdf with them
ExportPdf(c) ==
  /\ Authed(c)
  /\ LET ids == ListOf(GetEntries(entries, session[c]))
         verifiedEntries == VerifiedEntries(entries, ids) IN
     resp' = To(c, 0, IF Len(verifiedEntries) = 0
                      THEN Response("export-pdf", 0, "No verified entries", 0, 0)
                      ELSE GeneratePdf(entries, verifiedEntries))
  /\ sent' = << >>
  /\ UNCHANGED <<users, entries, supervisors, session, req, now, issued, magic, flight, minted>>

\* a registered user who has logged up to MaxRows entries, none verified yet
ExportInit ==
  /\ users = <<[email |-> "a@x", password |-> Hash("pw"),
                name |-> Null, employeeNumber |-> Null]>>
  /\ session = [c \in Clients |-> 1]
  /\ \E n \in 0..MaxRows :
       \E work \in [1..n -> LoggedWork] :
         entries = [i \in 1..n |->
                      CreateEntryRow([userId |-> 1, date |-> "d1", location |-> "Site A",
                                      method |-> work[i].method, hours |-> work[i].hours],
                                     Uuids[i])]
  /\ supervisors = << >>
  /\ req = [p \in Procs |-> IdleReq]
  /\ now = 1
  /\ resp = NoResponse
  /\ sent = << >>
  /\ issued = [e \in 1..MaxEntries |-> "never"]
  /\ magic = [c \in Clients |-> NoLink]
  /\ flight = [p \in Procs |-> IdleFlight]
  /\ minted = 0

\* supervisors redeem the links of the entries while the user views and exports
ExportNext ==
  \/ \E e \in 1..Len(entries) : Redeem(entries[e].verificationToken, "Ann")
  \/ \E c \in Clients : RenderTable(c)
  \/ \E c \in Clients : ExportPdf(c)

ExportSpec == ExportInit /\ [][ExportNext]_vars

\* ---------------------------------------------------- several entries
\* a run that may hold MaxTable entries
TableInit ==
  /\ users = << >>
  /\ entries = << >>
  /\ supervisors = << >>
  /\ session = [c \in Clients |-> 0]
  /\ req = [p \in Procs |-> IdleReq]
  /\ now = 1
  /\ resp = NoResponse
  /\ sent = << >>
  /\ issued = [e \in 1..MaxTable |-> "never"]
  /\ magic = [c \in Clients |-> NoLink]
  /\ flight = [p \in Procs |-> IdleFlight]
  /\ minted = 0

\* one user creating entries one by one and in arrays, asking for their
\* verification, and supervisors redeeming the links
TableNext ==
  \/ \E c \in Clients : Register(c, "a@x", "pw")
  \/ \E c \in Clients : Logout(c)
  \/ \E c \in Clients : Login(c, "a@x", "pw")
  \/ \E c \in Clients, body \in PatchBodies : PatchUser(c, body)
  \/ \E c \in Clients, body \in EntryBodies, token \in Tokens : CreateEntry(c, body, token)
  \/ \E c \in Clients, bodies \in {<<b, b>> : b \in EntryBodies} :
       \E tokens \in TokenSeqs(Len(bodies)) : CreateEntryBatch(c, bodies, tokens)
  \/ \E c \in Clients, fields \in SupervisorFields : CreateSupervisor(c, fields)
  \/ \E c \in Clients, entryId \in 1..MaxTable, body \in VerifyRequestBodies :
       VerifyRequest(c, entryId, body)
  \/ \E token \in Tokens, verifierName \in {"", "Ann"} : Redeem(token, verifierName)

TableSpec == TableInit /\ [][TableNext]_vars

\* ------------------------------------------------------ supervisor bank
\* two users filling their supervisor banks, directly and through verification
\* requests, with bodies of every kind
BankNext ==
  \/ \E c \in Clients, email \in Emails : Register(c, email, "pw")
  \/ \E c \in Clients : Logout(c)
  \/ \E c \in Clients, email \in Emails : Login(c, email, "pw")
  \/ \E c \in Clients, body \in {b \in EntryBodies : ValidEntry(b)} :
       CreateEntry(c, body, "t1")
  \/ \E c \in Clients : ListSupervisors(c)
  \/ \E c \in Clients, fields \in SupervisorInputs : CreateSupervisor(c, fields)
  \/ \E c \in Clients, entryId \in 1..MaxEntries, body \in BankBodies :
       VerifyRequest(c, entryId, body)

BankSpec == Init /\ [][BankNext]_vars

\* ------------------------------------------- sign-up and magic-link routes
\* the emails a login is tried with
LoginEmails == Emails \cup {"z@x"}

\* an insert into users that ignores the index on email
UsersEmailUnique_Dropped(us, email) == TRUE

\* users.email is unique: an insert of this email violates no index
UsersEmailUnique(us, email) == \A i \in 1..Len(us) : us[i].email # email

\* POST /api/auth/register up to its lookup: the 400 answers, or the request
\* goes on to hash the password
RegisterLookup(p, c, email, password) ==
  /\ flight[p].pc = "idle"
  /\ IF ~Truthy(email) \/ ~Truthy(password)
     THEN /\ resp' = To(c, 0, Response("register", 400, "Email and password are required", 0, 0))
          /\ sent' = << >>
          /\ UNCHANGED flight
     ELSE IF GetUserByEmail(users, email) # 0
     THEN /\ resp' = To(c, 0, Response("register", 400, "Email already registered", 0, 0))
          /\ sent' = << >>
          /\ UNCHANGED flight
     ELSE /\ flight' = [flight EXCEPT ![p] =
                          [IdleFlight EXCEPT !.pc = "insert", !.op = "register",
                                             !.client = c, !.email = email,
                                             !.password = password]]
          /\ UNCHANGED <<resp, sent>>
  /\ UNCHANGED <<users, entries, supervisors, session, req, now, issued, magic, minted>>

\* POST /api/auth/register from createUser on: an insert that violates the index
\* throws and is answered 500, any other logs the session in
RegisterInsert(p) ==
  /\ flight[p].pc = "insert"
  /\ LET f == flight[p] IN
     IF ~UsersEmailUnique(users, f.email)
     THEN /\ resp' = To(f.client, 0, Response("register", 500, "Error during registration", 0, 0))
          /\ UNCHANGED <<users, session>>
     ELSE /\ users' = Append(users, [email |-> f.email, password |-> Hash(f.password),
                                     name |-> Null, employeeNumber |-> Null])
          /\ session' = [session EXCEPT ![f.client] = Len(users) + 1]
          /\ resp' = To(f.client, 0, Response("register", 201, "", 0, 0))
  /\ flight' = [flight EXCEPT ![p] = IdleFlight]
  /\ sent' = << >>
  /\ UNCHANGED <<entries, supervisors, req, now, issued, magic, minted>>

\* POST /api/auth/request-magic-link up to its lookup
RequestMagicLinkLookup(p, c, email) ==
  /\ flight[p].pc = "idle"
  /\ IF ~Truthy(email)
     THEN /\ resp' = To(c, 0, Response("request-magic-link", 400, "Email is required", 0, 0))
          /\ sent' = << >>
          /\ UNCHANGED flight
     ELSE /\ minted + Cardinality({q \in Procs : flight[q].pc = "link"}) < MaxLinks
          /\ flight' = [flight EXCEPT ![p] =
                          [IdleFlight EXCEPT !.pc = "link", !.op = "request-magic-link",
                                             !.client = c, !.email = email,
                                             !.found = GetUserByEmail(users, email)]]
          /\ UNCHANGED <<resp, sent>>
  /\ UNCHANGED <<users, entries, supervisors, session, req, now, issued, magic, minted>>

\* POST /api/auth/request-magic-link from createUser on: a user with the email
\* only is inserted when the lookup found none, the next token of randomBytes
\* and the email are put into the session, and the link is mailed; a failed
\* dispatch is answered 200 with the link
RequestMagicLinkFinish(p) ==
  /\ flight[p].pc = "link"
  /\ LET f == flight[p] IN
     IF f.found = 0 /\ ~UsersEmailUnique(users, f.email)
     THEN /\ resp' = To(f.client, 0,
                        Response("request-magic-link", 500, "Error sending magic link", 0, 0))
          /\ sent' = << >>
          /\ UNCHANGED <<users, magic, minted>>
     ELSE /\ users' = IF f.found = 0
                      THEN Append(users, [email |-> f.email, password |-> NoPassword,
                                          name |-> Null, employeeNumber |-> Null])
                      ELSE users
          /\ minted' = minted + 1
          /\ magic' = [magic EXCEPT ![f.client] = [token |-> minted + 1, email |-> f.email]]
          /\ \E delivered \in BOOLEAN :
               /\ sent' = <<[to |-> f.email, delivered |-> delivered]>>
               /\ resp' = To(f.client, 0,
                             Response("request-magic-link", 200,
                                      IF delivered THEN "Magic link sent"
                                      ELSE "Email delivery failed, but you can use this direct link:",
                                      0, 0))
  /\ flight' = [flight EXCEPT ![p] = IdleFlight]
  /\ UNCHANGED <<entries, supervisors, session, req, now, issued>>

\* GET /api/auth/verify-magic-link up to its lookup (token 0: no token in the
\* query): the checks against the session
VerifyMagicLinkCheck(p, c, token) ==
  /\ flight[p].pc = "idle"
  /\ IF token = 0
     THEN /\ resp' = To(c, 0, Response("verify-magic-link", 400, "Invalid token", 0, 0))
          /\ sent' = << >>
          /\ UNCHANGED flight
     ELSE IF magic[c].token = 0 \/ magic[c].token # token
     THEN /\ resp' = To(c, 0, Response("verify-magic-link", 401, "Invalid or expired token", 0, 0))
          /\ sent' = << >>
          /\ UNCHANGED flight
     ELSE IF ~Truthy(magic[c].email)
     THEN /\ resp' = To(c, 0, Response("verify-magic-link", 401, "Invalid session", 0, 0))
          /\ sent' = << >>
          /\ UNCHANGED flight
     ELSE /\ flight' = [flight EXCEPT ![p] =
                          [IdleFlight EXCEPT !.pc = "user", !.op = "verify-magic-link",
                                             !.client = c, !.token = token,
                                             !.email = magic[c].email]]
          /\ UNCHANGED <<resp, sent>>
  /\ UNCHANGED <<users, entries, supervisors, session, req, now, issued, magic, minted>>

\* GET /api/auth/verify-magic-link from getUserByEmail on: the session is logged
\* in as that user and loses its token and email
VerifyMagicLinkFinish(p) ==
  /\ flight[p].pc = "user"
  /\ LET f == flight[p]
         u == GetUserByEmail(users, f.email) IN
     IF u = 0
     THEN /\ resp' = To(f.client, 0, Response("verify-magic-link", 404, "User not found", 0, 0))
          /\ UNCHANGED <<session, magic>>
     ELSE /\ session' = [session EXCEPT ![f.client] = u]
          /\ magic' = [magic EXCEPT ![f.client] = NoLink]
          /\ resp' = To(f.client, 0,
                        Response("verify-magic-link", 200, "Authentication successful", 0, 0))
  /\ flight' = [flight EXCEPT ![p] = IdleFlight]
  /\ sent' = << >>
  /\ UNCHANGED <<users, entries, supervisors, req, now, issued, minted>>

\* sign-ups, magic-link requests and verifications whose steps interleave, and
\* password logins and logouts
AuthNext ==
  \/ \E p \in Procs, c \in Clients, email \in Emails : RegisterLookup(p, c, email, "pw")
  \/ \E p \in Procs : RegisterInsert(p)
  \/ \E p \in Procs, c \in Clients, email \in Emails \cup {Missing} :
       RequestMagicLinkLookup(p, c, email)
  \/ \E p \in Procs : RequestMagicLinkFinish(p)
  \/ \E p \in Procs, c \in Clients, token \in 0..MaxLinks :
       VerifyMagicLinkCheck(p, c, token)
  \/ \E p \in Procs : VerifyMagicLinkFinish(p)
  \/ \E c \in Clients, email \in LoginEmails, password \in Passwords :
       Login(c, email, password)
  \/ \E c \in Clients : Logout(c)

AuthSpec == Init /\ [][AuthNext]_vars

\* ================================================================== claims
AlreadyVerified(r) ==
  r.pc = "done" /\ r.status = 400 /\ r.message = "Entry already verified"

Succeeded(r) == r.pc = "done" /\ r.status = 200

\* a request that found its entry unverified at the lookup
FoundUnverified(r) == r.entryId # 0

\* C1: of two redemption requests for the same token that both found the entry
\* still unverified, exactly one returns success and the other is rejected as
\* already verified.
C1_ExactlyOneRedemptionSucceeds ==
  \A p, q \in Procs :
    ( /\ p # q
      /\ req[p].pc = "done" /\ req[q].pc = "done"
      /\ req[p].token = req[q].token
      /\ FoundUnverified(req[p]) /\ FoundUnverified(req[q]) )
    => \/ Succeeded(req[p]) /\ AlreadyVerified(req[q])
       \/ Succeeded(req[q]) /\ AlreadyVerified(req[p])

\* C2: once a redemption of a token has completed successfully, a later request
\* with that token is rejected as already verified at its lookup, and the entry's
\* verifiedBy and verifiedAt stay as that call set them.
C2_ReplayLeavesFirstVerification ==
  [][\A p \in Procs :
       Succeeded(req[p]) =>
         /\ entries'[req[p].entryId].verifiedBy = entries[req[p].entryId].verifiedBy
         /\ entries'[req[p].entryId].verifiedAt = entries[req[p].entryId].verifiedAt
         /\ \A q \in Procs :
              ( /\ req[q].pc = "lookup"
                /\ req[q].token = req[p].token
                /\ req'[q] # req[q] )
              => AlreadyVerified(req'[q])]_vars

\* C3: under any interleaving of redemption requests, the verifiedBy and
\* verifiedAt of an entry that has verified = true are never overwritten.
C3_VerifiedRowNeverOverwritten ==
  [][\A e \in 1..Len(entries) :
       entries[e].verified =>
         /\ entries'[e].verifiedBy = entries[e].verifiedBy
         /\ entries'[e].verifiedAt = entries[e].verifiedAt]_vars

\* C4: an entry that has verified = true has verified = true after every step.
C4_VerifiedIsTerminal ==
  [][\A e \in 1..Len(entries) :
       entries[e].verified => (e \in 1..Len(entries') /\ entries'[e].verified)]_vars

\* an entry is verified and a replayed redemption of its token has been rejected
C4_Witness ==
  \E e \in 1..Len(entries), p \in Procs :
    /\ entries[e].verified
    /\ req[p].token = entries[e].verificationToken
    /\ AlreadyVerified(req[p])

\* C5: every stored entry that is verified has a non-empty verifiedBy and a
\* verifiedAt, and every entry that is not verified has verifiedAt null.
C5_VerificationFields ==
  \A e \in 1..Len(entries) :
    /\ entries[e].verified =>
         (entries[e].verifiedBy \notin {Null, Missing, ""} /\ entries[e].verifiedAt # NoTime)
    /\ ~entries[e].verified => entries[e].verifiedAt = NoTime

\* one entry is verified and a redemption without a verifier name was rejected
C5_Witness ==
  /\ \E e \in 1..Len(entries) : entries[e].verified /\ entries[e].verifiedBy = "Ann"
  /\ resp.op = "verify-post" /\ resp.status = 400
  /\ resp.message = "Verifier name is required"

\* the step is a successful verification request for entry e
RequestIssued(e) ==
  /\ Len(sent') = 1
  /\ resp'.op = "verify-request" /\ resp'.status = 200 /\ resp'.entry = e

\* the token is accepted by both public routes
TokenLive(es, token) ==
  /\ VerifyGetResponse(es, token).status = 200
  /\ RedeemCheck([IdleReq EXCEPT !.token = token, !.verifierName = "Ann"], es).pc = "write"

Outcome(r) == <<r.status, r.message>>

\* C8: on GET and POST /api/verify/:token a token that matches no entry and a
\* token whose entry is verified get the same status and message.
C8_UnknownAndVerifiedIndistinguishable ==
  \A t1, t2 \in Tokens :
    ( /\ GetEntryByVerificationToken(entries, t1) = 0
      /\ GetEntryByVerificationToken(entries, t2) # 0
      /\ entries[GetEntryByVerificationToken(entries, t2)].verified )
    => /\ Outcome(VerifyGetResponse(entries, t1)) = Outcome(VerifyGetResponse(entries, t2))
       /\ Outcome(RedeemCheck([IdleReq EXCEPT !.token = t1], entries))
            = Outcome(RedeemCheck([IdleReq EXCEPT !.token = t2], entries))

\* the step changes no supervisor, no entry and makes no notification attempt
NothingIssued ==
  /\ supervisors' = supervisors
  /\ entries' = entries
  /\ sent' = << >>
  /\ issued' = issued
  /\ resp'.entry = 0 /\ resp'.supervisor = 0

\* C9: a verification request of an authenticated caller is answered 404 for an
\* entry that does not exist, 403 for an entry of another user and 400 "Entry
\* already verified" for a verified entry of the caller, and none of the three
\* creates a supervisor, attempts a notification or changes an entry.
C9_RequestPreconditions ==
  [][(resp'.op = "verify-request" /\ resp'.status # 401 /\ resp'.entryId # NaNId) =>
       LET entryId == resp'.entryId
           uid == session[resp'.client] IN
       /\ entryId > Len(entries) =>
            /\ resp'.status = 404 /\ resp'.message = "Entry not found"
            /\ NothingIssued
       /\ (entryId <= Len(entries) /\ entries[entryId].userId # uid) =>
            /\ resp'.status = 403
            /\ NothingIssued
       /\ ( /\ entryId <= Len(entries)
            /\ entries[entryId].userId = uid
            /\ entries[entryId].verified ) =>
            /\ resp'.status = 400 /\ resp'.message = "Entry already verified"
            /\ NothingIssued]_vars

\* the owner's request for an entry that is verified was answered with the conflict
C9_Witness ==
  /\ resp.op = "verify-request" /\ resp.status = 400
  /\ resp.message = "Entry already verified"
  /\ resp.entryId \in 1..Len(entries)
  /\ entries[resp.entryId].verified
  /\ entries[resp.entryId].userId = session[resp.client]

\* C10: a verification request whose supervisorId names a supervisor of another
\* user is rejected, returns no supervisor and attempts no notification.
C10_ForeignSupervisorRejected ==
  [][\A c \in Clients, entryId \in {NaNId} \cup (1..MaxEntries + 1),
        body \in VerifyRequestBodies :
       ( /\ resp'.op = "verify-request"
         /\ Authed(c)
         /\ body.supervisorId \in 1..Len(supervisors)
         /\ VerifyRequest(c, entryId, body)
         /\ supervisors[body.supervisorId].userId # session[c] )
       => /\ resp'.status # 200
          /\ resp'.supervisor = 0
          /\ sent' = << >>]_vars

\* the status and message a verification request of user uid for entryId gets
\* when it names no supervisor it could use
RequestAnswer(uid, entryId) ==
  LET r == VerifyRequestRejection(
             VerifyRequestOutcome(uid, entryId, Len(supervisors) + 1,
                                  CHOOSE g \in SupervisorFields : g.name = Missing,
                                  entries, supervisors)) IN
  <<r.status, r.message>>

\* C11: a verification request for an entry of another user gets the same status
\* and message as a verification request for an entry id that does not exist.
C11_ForeignAndMissingIndistinguishable ==
  \A c \in Clients :
    Authed(c) =>
      \A e \in 1..Len(entries) :
        entries[e].userId # session[c]
        => RequestAnswer(session[c], e) = RequestAnswer(session[c], Len(entries) + 1)

\* C12: every stored entry has hours > 0 and a method of the enumeration, entry
\* creation rejecting every object that has not.
C12_StoredEntriesValid ==
  \A e \in 1..Len(entries) :
    entries[e].hours > 0 /\ entries[e].method \in NDTMethods

\* C13: when POST /api/entries with an array body is rejected with a validation
\* error, the stored entries are the same as before the request.
C13_RejectedArrayWritesNothing ==
  [][(resp'.op = "create-entries" /\ resp'.status = 400) => entries' = entries]_vars

\* a body that is valid by the contract: date and location present, hours > 0 and
\* a method of the enumeration
ValidInput(body) ==
  /\ body.date # Missing /\ body.location # Missing
  /\ body.hours > 0 /\ body.method \in NDTMethods

ValidInputs == {body \in EntryInputs : ValidInput(body)}

ValidArrays == {bodies \in EntryArrays : \A i \in DOMAIN bodies : ValidInput(bodies[i])}

\* the row is unverified, as the column defaults leave it
Unverified(row) ==
  row.verified = FALSE /\ row.verifiedAt = NoTime /\ row.verifiedBy = Null

\* the tokens are not those of stored entries and differ from one another
FreshTokens(tokens) ==
  /\ \A i \in DOMAIN tokens : GetEntryByVerificationToken(entries, tokens[i]) = 0
  /\ \A i, j \in DOMAIN tokens : i # j => tokens[i] # tokens[j]

\* C14: creation of a valid entry input (given a fresh uuid) succeeds, single or
\* in an array, and every record a creation stores has verified = false,
\* verifiedAt = null and verifiedBy = null, whatever else the body carries.
C14_CreatedEntriesUnverified ==
  [][/\ \A e \in Len(entries) + 1 .. Len(entries') : Unverified(entries'[e])
     /\ \A c \in Clients, body \in ValidInputs, token \in Tokens :
          ( /\ Authed(c) /\ FreshTokens(<<token>>)
            /\ CreateEntry(c, body, token) )
          => /\ resp'.status = 201
             /\ Len(entries') = Len(entries) + 1
             /\ entries'[resp'.entry].method = body.method
             /\ entries'[resp'.entry].hours = body.hours
     /\ \A c \in Clients, bodies \in ValidArrays :
          \A tokens \in TokenSeqs(Len(bodies)) :
            ( /\ Authed(c) /\ FreshTokens(tokens)
              /\ CreateEntryBatch(c, bodies, tokens) )
            => /\ resp'.status = 201
               /\ Len(entries') = Len(entries) + Len(bodies)]_vars

\* the body that carried verified, verifiedBy and verifiedAt was stored, unverified
C14_Witness ==
  /\ resp.op = "create-entry" /\ resp.status = 201
  /\ resp.entry \in 1..Len(entries)
  /\ entries[resp.entry].method = "MT"
  /\ Unverified(entries[resp.entry])

\* C15: a verification request whose notification dispatch fails is answered
\* like one whose dispatch succeeds: 200 with the supervisor and the entry, which
\* carries its token, and no entry is changed by either.
C15_DeliveryFailureNotFatal ==
  [][(resp'.op = "verify-request" /\ Len(sent') = 1) =>
       /\ resp'.status = 200 /\ resp'.message = "Verification request sent"
       /\ resp'.entry = resp'.entryId
       /\ resp'.supervisor \in 1..Len(supervisors')
       /\ entries'[resp'.entry].verificationToken \in Tokens
       /\ entries' = entries]_vars

\* a verification request whose dispatch failed was answered 200
C15_Witness ==
  /\ resp.op = "verify-request" /\ resp.status = 200
  /\ Len(sent) = 1 /\ ~sent[1].delivered
  /\ resp.entry \in 1..Len(entries)

RECURSIVE SumHours(_, _)
SumHours(es, S) ==
  IF S = {} THEN 0
  ELSE LET i == CHOOSE k \in S : TRUE IN es[i].hours + SumHours(es, S \ {i})

\* the totals map each of the nine methods, and nothing else, to the sum of the
\* hours of the entries in S with that method (0 when there is none)
SumsPerMethod(totals, es, S) ==
  /\ DOMAIN totals = NDTMethods
  /\ \A m \in NDTMethods : totals[m] = SumHours(es, {i \in S : es[i].method = m})

\* C17: the totals of the table and of the exported document map each of the nine
\* methods to the sum of the hours of their input entries with that method, and a
\* method without an entry to 0.
C17_TotalsPerMethod ==
  (resp.op \in {"ojt-table", "export-pdf"} /\ resp.status = 200)
  => SumsPerMethod(resp.totals, entries, resp.rows)

\* the table of ET 25, ET 10 and MT 40 shows ET 35, MT 40 and 0 for the rest
C17_Witness ==
  /\ resp.op = "ojt-table"
  /\ Cardinality(resp.rows) = 3
  /\ resp.totals["ET"] = 35 /\ resp.totals["MT"] = 40
  /\ \A m \in NDTMethods \ {"ET", "MT"} : resp.totals[m] = 0
  /\ \E i, j \in resp.rows :
       entries[i].method = "ET" /\ entries[i].hours = 25
       /\ entries[j].method = "ET" /\ entries[j].hours = 10

\* C18: the rows of an exported document are exactly the caller's entries with
\* verified = true and its totals are the sums over those entries; an unverified
\* entry has neither a row nor hours in it, and no document is made of none.
C18_ExportOnlyVerified ==
  [][resp'.op = "export-pdf" =>
       LET mine == GetEntries(entries, session[resp'.client])
           verified == {i \in mine : entries[i].verified = TRUE} IN
       /\ resp'.rows = verified
       /\ (resp'.status = 200) = (verified # {})
       /\ resp'.status = 200 => SumsPerMethod(resp'.totals, entries, verified)]_vars

\* a document was exported while one entry was verified and another was not
C18_Witness ==
  /\ resp.op = "export-pdf" /\ resp.status = 200
  /\ \E i \in resp.rows : entries[i].verified = TRUE /\ resp.totals[entries[i].method] > 0
  /\ \E j \in 1..Len(entries) : j \notin resp.rows /\ entries[j].verified = FALSE
  /\ \E k \in 1..Len(entries) : entries[k].verified = TRUE

\* C19: GET /api/entries and GET /api/supervisors return exactly the stored rows
\* whose userId is the session's userId, and so no row of another user.
C19_ListingsScopedToCaller ==
  [][/\ (resp'.op = "list-entries" /\ resp'.status = 200) =>
          resp'.rows = {i \in 1..Len(entries) : entries[i].userId = session[resp'.client]}
     /\ (resp'.op = "list-supervisors" /\ resp'.status = 200) =>
          resp'.rows = {i \in 1..Len(supervisors) :
                          supervisors[i].userId = session[resp'.client]}]_vars

\* a user has listed entries while another user's entry was stored, and did not
\* get it
C19_Witness ==
  /\ resp.op = "list-entries" /\ resp.status = 200
  /\ \E e \in 1..Len(entries) :
       entries[e].userId # session[resp.client] /\ e \notin resp.rows
  /\ \E s \in 1..Len(supervisors) : supervisors[s].userId # session[resp.client]

OwnerScoped ==
  {"get-user", "patch-user", "list-entries", "create-entry", "create-entries",
   "list-supervisors", "create-supervisor", "verify-request"}

\* C20: an owner-scoped request of a client without a session userId is answered
\* 401 "Unauthorized" and changes no table, session or notification, and the two
\* token routes are answered on their token alone, never with 401.
C20_OwnerRoutesNeedSession ==
  [][/\ (resp'.op \in OwnerScoped /\ session[resp'.client] = 0) =>
          /\ resp'.status = 401 /\ resp'.message = "Unauthorized"
          /\ resp'.rows = {} /\ resp'.entry = 0 /\ resp'.supervisor = 0
          /\ sent' = << >>
          /\ UNCHANGED <<users, entries, supervisors, session, issued, now, magic, flight, minted>>
     /\ resp'.op = "verify-get" =>
          \E token \in Tokens : resp' = VerifyGetResponse(entries, token)
     /\ resp'.op = "verify-post" => resp'.status \in {200, 400, 404}]_vars

\* with nobody logged in, a verification request for a stored unverified entry
\* was answered 401
C20_Witness ==
  /\ \A c \in Clients : session[c] = 0
  /\ resp.op = "verify-request" /\ resp.status = 401
  /\ \E e \in 1..Len(entries) : ~entries[e].verified
  /\ Len(supervisors) > 0

\* C23: every entry that is verified had a successful verification request
\* issued for it by its owner before.
C23_VerifiedOnlyAfterRequest ==
  \A e \in 1..Len(entries) : entries[e].verified => issued[e] # "never"

\* C24: a verification request that succeeds makes exactly one send attempt, to
\* the supervisor it returns, whether or not that attempt is delivered, and a
\* request that does not succeed makes none.
C24_OneAttemptPerRequest ==
  [][resp'.op = "verify-request" =>
       IF resp'.status = 200
       THEN /\ Len(sent') = 1
            /\ sent'[1].to = supervisors'[resp'.supervisor].email
       ELSE sent' = << >>]_vars

\* two requests have succeeded for one entry and the attempt of the second failed
C24_Witness ==
  /\ resp.op = "verify-request" /\ resp.status = 200
  /\ issued[resp.entry] = "again"
  /\ Len(sent) = 1 /\ ~sent[1].delivered

\* C21: no two stored entries carry the same verification token, so a token
\* resolves to at most one entry.
C21_TokensUnique ==
  \A i, j \in 1..Len(entries) :
    i # j => entries[i].verificationToken # entries[j].verificationToken

\* two entries are stored and an insert with a token already taken was refused
C21_Witness ==
  /\ Len(entries) = 2
  /\ resp.op \in {"create-entry", "create-entries"} /\ resp.status = 500

\* C22: a step in which an entry's verified changes from false to true is a
\* successful POST /api/verify/:token with that entry's token and a non-empty
\* verifierName, and a verification request changes no entry's verified,
\* verifiedBy or verifiedAt.
C22_OnlyRedemptionVerifies ==
  [][/\ \A e \in 1..Len(entries) :
          (entries[e].verified = FALSE /\ entries'[e].verified = TRUE) =>
            /\ resp'.op = "verify-post" /\ resp'.status = 200 /\ resp'.entry = e
            /\ entries'[e].verifiedBy \notin {Missing, Null, ""}
            /\ \E verifierName \in VerifierNames \ {Missing, ""} :
                 Redeem(entries[e].verificationToken, verifierName)
     /\ resp'.op = "verify-request" =>
          \A e \in 1..Len(entries) :
            /\ entries'[e].verified = entries[e].verified
            /\ entries'[e].verifiedBy = entries[e].verifiedBy
            /\ entries'[e].verifiedAt = entries[e].verifiedAt]_vars

\* one entry was verified by a redemption after a request for it, the other
\* entry is still unverified although a request was issued for it too
C22_Witness ==
  /\ Len(entries) = 2
  /\ resp.op = "verify-post" /\ resp.status = 200
  /\ entries[resp.entry].verified = TRUE
  /\ \E e \in 1..Len(entries) :
       e # resp.entry /\ entries[e].verified = FALSE /\ issued[e] # "never"

\* the columns of an entry that are set at creation
Created(row) == <<row.userId, row.date, row.location, row.method, row.hours>>

\* C25: no step changes the userId, date, location, method or hours of a stored
\* entry, and a redemption changes nothing but verified, verifiedBy and verifiedAt
\* of the entry it answers with: no other entry, no supervisor, no user.
C25_EntryFieldsFixed ==
  [][/\ \A e \in 1..Len(entries) :
          e \in 1..Len(entries') /\ Created(entries'[e]) = Created(entries[e])
     /\ resp'.op = "verify-post" =>
          /\ users' = users /\ supervisors' = supervisors
          /\ Len(entries') = Len(entries)
          /\ \A e \in 1..Len(entries) :
               \/ entries'[e] = entries[e]
               \/ /\ resp'.status = 200 /\ resp'.entry = e
                  /\ entries'[e].verificationToken = entries[e].verificationToken]_vars

\* a redemption has verified one of two entries and left the other as it was
C25_Witness ==
  /\ Len(entries) = 2 /\ Len(supervisors) > 0
  /\ resp.op = "verify-post" /\ resp.status = 200
  /\ entries[resp.entry].verifiedBy = "Ann"
  /\ \E e \in 1..Len(entries) :
       e # resp.entry /\ entries[e].verified = FALSE /\ entries[e].verifiedBy = Null

\* C26: a successful verification request with new-supervisor fields appends
\* exactly one supervisor with those fields whose owner is the caller, whatever
\* userId the body carries, and that supervisor is among the rows of the caller's
\* GET /api/supervisors; a successful request with a supervisorId leaves the
\* supervisors as they were; every supervisor any step adds is owned by its caller.
C26_RequestEffectOnBank ==
  [][/\ \A c \in Clients, entryId \in 1..MaxEntries, body \in BankBodies :
          (/\ VerifyRequest(c, entryId, body)
           /\ resp'.op = "verify-request" /\ resp'.status = 200) =>
            IF body.supervisorId = 0
            THEN /\ supervisors' =
                      Append(supervisors,
                             [f \in DOMAIN body.fields |->
                                IF f = "userId" THEN session[c] ELSE body.fields[f]])
                 /\ resp'.supervisor = Len(supervisors')
                 /\ supervisors'[Len(supervisors')].userId = session[c]
            ELSE supervisors' = supervisors
     /\ \A i \in 1..Len(supervisors') :
          i > Len(supervisors) => supervisors'[i].userId = session[resp'.client]]_vars

\* the first user's request has just added a supervisor to the first user's
\* bank while a second user exists
C26_Witness ==
  /\ Len(users) = 2
  /\ resp.op = "verify-request" /\ resp.status = 200
  /\ session[resp.client] = 1
  /\ issued[resp.entry] = "once"
  /\ resp.supervisor = Len(supervisors)
  /\ supervisors[resp.supervisor].userId = 1

\* C27: every stored supervisor has a non-empty name, email, phone and company
\* and a certificationLevel among Level I, Level II and Level III, as it would if
\* creation rejected every other input.
C27_StoredSupervisorsValid ==
  \A i \in 1..Len(supervisors) :
    /\ \A f \in {"name", "email", "phone", "company"} :
         supervisors[i][f] \notin {Missing, Null, ""}
    /\ supervisors[i].certificationLevel \in CertificationLevels

\* C28: no two stored users have the same email, whatever the interleaving of
\* registrations and magic-link requests; no step changes a stored user; and a
\* registration whose email is registered already is rejected, at its lookup
\* with 400 or at its insert with 500, and changes no user and no session.
C28_UserEmailsUnique ==
  [][/\ \A i, j \in 1..Len(users') : i # j => users'[i].email # users'[j].email
     /\ \A i \in 1..Len(users) : i <= Len(users') /\ users'[i] = users[i]
     /\ \A p \in Procs, c \in Clients, email \in Emails :
          (RegisterLookup(p, c, email, "pw") /\ GetUserByEmail(users, email) # 0) =>
            /\ resp'.op = "register" /\ resp'.status = 400
            /\ users' = users /\ session' = session /\ flight' = flight
     /\ \A p \in Procs :
          (RegisterInsert(p) /\ GetUserByEmail(users, flight[p].email) # 0) =>
            /\ resp'.op = "register" /\ resp'.status = 500
            /\ users' = users /\ session' = session]_vars

\* of two concurrent requests with one unseen email the second insert has just
\* been refused, and a user of each kind is stored
C28_Witness ==
  /\ resp.status = 500 /\ resp.op \in {"register", "request-magic-link"}
  /\ Len(users) = 2
  /\ \E i \in 1..Len(users) : users[i].password = NoPassword
  /\ \E i \in 1..Len(users) : users[i].password # NoPassword

\* C29: a step in which verify-magic-link answers 200 presents the token that
\* the same session holds at that moment, logs the session in as the user of the
\* email held with it, and leaves the session without token; so no token is
\* accepted twice and none is accepted after a newer request replaced it.
C29_MagicLinkSingleUse ==
  [][\A p \in Procs :
       (VerifyMagicLinkFinish(p) /\ resp'.status = 200) =>
         LET c == flight[p].client IN
         /\ magic[c].token = flight[p].token
         /\ session'[c] = GetUserByEmail(users, magic[c].email)
         /\ magic'[c] = NoLink]_vars

\* C30: a password login with an unknown email, with the email of a user without
\* password, or with a known email and a wrong password is answered 401 "Invalid
\* email or password" in each case and changes no session.
C30_LoginFailuresAlike ==
  [][\A c \in Clients, email \in LoginEmails, password \in Passwords :
       (/\ Login(c, email, password)
        /\ LET u == GetUserByEmail(users, email) IN
             \/ u = 0
             \/ users[u].password = NoPassword
             \/ users[u].password # Hash(password)) =>
         /\ resp' = To(c, 0, Response("login", 401, "Invalid email or password", 0, 0))
         /\ session' = session]_vars

\* a login has just been refused in a session that is not logged in, while a
\* user without password, a user with a password and an unregistered email exist
C30_Witness ==
  /\ resp.op = "login" /\ resp.status = 401
  /\ session[resp.client] = 0
  /\ \E i \in 1..Len(users) : users[i].password = NoPassword
  /\ \E i \in 1..Len(users) : users[i].password # NoPassword
  /\ \E email \in LoginEmails : GetUserByEmail(users, email) = 0

====
